---- MODULE Spec2Model ----
(***************************************************************************)
(* Shared-memory estimator channel of memcp's ai_optimizer.py              *)
(* (run_ipc_loop): the responder's poll loop, its opcode dispatch, the     *)
(* status channel and the model-store decoding it relies on, together with *)
(* a requester that keeps one request in flight.                           *)
(*                                                                         *)
(* Byte strings and texts are sequences of numbers (bytes 0..255, code     *)
(* points).  The mapped file is modelled from offset 64 on as the byte     *)
(* sequence mm.data (index i+1 holds the byte at offset 64+i); the header  *)
(* fields at offsets 0..63 are typed fields of the record mm.  The two     *)
(* region sizes are scaled down; everything else keeps the layout of the   *)
(* code (1-byte opcode, 4-byte little-endian lengths).                     *)
(***************************************************************************)
EXTENDS Integers, Sequences, FiniteSets, TLC

\* ---------------------------------------------------------------- bounds
MaxSeq == 2        \* requests the requester publishes in one run
MaxSideSeq == 1    \* requests published in the specifications with a second process
MaxResets == 2     \* out-of-turn writes of reqSeq by that requester
PayloadCap == 12   \* bytes of the request/response region (512*1024 in the code)
StatusCap == 3     \* bytes of the status message region (64*1024 in the code)

StatusBase == PayloadCap             \* offset (from 64) of the status message bytes
FileCap == PayloadCap + StatusCap    \* bytes of the mapped file after the header

\* ------------------------------------------------------- byte-string helpers
Rep(b, n) == [i \in 1..n |-> b]

Min(a, b) == IF a < b THEN a ELSE b

\* Python slice mm[off:off+n] (clamped to the end of the buffer)
Slice(buf, off, n) ==
    LET hi == Min(off + n, Len(buf))
    IN  IF hi <= off THEN <<>> ELSE [i \in 1..(hi - off) |-> buf[off + i]]

\* mm[off:off+len(b)] = b raises when the slice does not lie inside the buffer
Fits(buf, off, b) == off + Len(b) <= Len(buf)

WriteAt(buf, off, b) ==
    [i \in 1..Len(buf) |-> IF i > off /\ i <= off + Len(b) THEN b[i - off] ELSE buf[i]]

\* struct '<I'
PackU32(n) ==
    << n % 256, (n \div 256) % 256, (n \div 65536) % 256, (n \div 16777216) % 256 >>

\* struct.unpack('<I'); a value from 2^30 on is only ever used as a slice
\* length far beyond the file and is represented by 2^30
UnpackU32(b) ==
    IF b[4] >= 64 THEN 1073741824
    ELSE b[1] + 256 * b[2] + 65536 * b[3] + 16777216 * b[4]

\* str.encode('utf-8') for code points below 2048
EncodeCp(cp) ==
    IF cp < 128 THEN << cp >> ELSE << 192 + (cp \div 64), 128 + (cp % 64) >>

RECURSIVE Utf8Encode(_)
Utf8Encode(text) ==
    IF text = <<>> THEN <<>> ELSE EncodeCp(Head(text)) \o Utf8Encode(Tail(text))

\* bytes.decode('utf-8', 'ignore') for one- and two-byte sequences: a byte that
\* does not start a well-formed sequence is dropped (byte values >= 224 are
\* not used by the model)
RECURSIVE Utf8DecodeIgnore(_)
Utf8DecodeIgnore(b) ==
    IF b = <<>> THEN <<>>
    ELSE IF b[1] < 128 THEN << b[1] >> \o Utf8DecodeIgnore(Tail(b))
    ELSE IF b[1] >= 194 /\ b[1] <= 223 /\ Len(b) >= 2 /\ b[2] >= 128 /\ b[2] <= 191
         THEN << (b[1] - 192) * 64 + (b[2] - 128) >> \o Utf8DecodeIgnore(Tail(Tail(b)))
    ELSE Utf8DecodeIgnore(Tail(b))

\* ------------------------------------------------------------------ base64
Pad == 61   \* '='

B64Char(v) ==
    IF v < 26 THEN 65 + v
    ELSE IF v < 52 THEN 97 + (v - 26)
    ELSE IF v < 62 THEN 48 + (v - 52)
    ELSE IF v = 62 THEN 43 ELSE 47

IsB64(c) ==
    \/ c >= 65 /\ c <= 90
    \/ c >= 97 /\ c <= 122
    \/ c >= 48 /\ c <= 57
    \/ c = 43
    \/ c = 47

B64Val(c) ==
    IF c >= 65 /\ c <= 90 THEN c - 65
    ELSE IF c >= 97 /\ c <= 122 THEN c - 97 + 26
    ELSE IF c >= 48 /\ c <= 57 THEN c - 48 + 52
    ELSE IF c = 43 THEN 62 ELSE 63

\* base64.b64encode(blob_bytes).decode("ascii")
RECURSIVE Base64Encode(_)
Base64Encode(b) ==
    IF b = <<>> THEN <<>>
    ELSE IF Len(b) = 1
         THEN << B64Char(b[1] \div 4), B64Char((b[1] % 4) * 16), Pad, Pad >>
    ELSE IF Len(b) = 2
         THEN << B64Char(b[1] \div 4), B64Char((b[1] % 4) * 16 + (b[2] \div 16)),
                 B64Char((b[2] % 16) * 4), Pad >>
    ELSE << B64Char(b[1] \div 4), B64Char((b[1] % 4) * 16 + (b[2] \div 16)),
            B64Char((b[2] % 16) * 4 + (b[3] \div 64)), B64Char(b[3] % 64) >>
         \o Base64Encode(SubSeq(b, 4, Len(b)))

\* well-formed: groups of four alphabet characters, '=' only as the last one
\* or two characters
B64WellFormed(s) ==
    /\ Len(s) % 4 = 0
    /\ \A i \in 1..Len(s) :
          \/ IsB64(s[i])
          \/ s[i] = Pad /\ i >= Len(s) - 1 /\ i >= 3 /\ (i = Len(s) \/ s[Len(s)] = Pad)

RECURSIVE B64Quads(_)
B64Quads(s) ==
    IF s = <<>> THEN <<>>
    ELSE LET v1 == B64Val(s[1])
             v2 == B64Val(s[2])
             b1 == v1 * 4 + (v2 \div 16)
         IN  IF s[3] = Pad THEN << b1 >>
             ELSE LET v3 == B64Val(s[3])
                      b2 == (v2 % 16) * 16 + (v3 \div 4)
                  IN  IF s[4] = Pad THEN << b1, b2 >>
                      ELSE << b1, b2, (v3 % 4) * 64 + B64Val(s[4]) >>
                           \o B64Quads(SubSeq(s, 5, Len(s)))

\* base64.b64decode(field, validate=True): rejects every character outside
\* the alphabet and every malformed padding
B64DecodeStrict(s) ==
    IF B64WellFormed(s) THEN [ok |-> TRUE, bytes |-> B64Quads(s)]
    ELSE [ok |-> FALSE, bytes |-> <<>>]

\* base64.b64decode(field): characters outside the alphabet are discarded
\* first; what is left must still be well-formed
B64DecodeLoose(s) ==
    B64DecodeStrict(SelectSeq(s, LAMBDA c : IsB64(c) \/ c = Pad))

\* a model field as the JSON row carries it: null or a text
NullField == [null |-> TRUE, text |-> <<>>]
TextField(t) == [null |-> FALSE, text |-> t]

\* variant: the base64 text is taken for the model bytes themselves
_decode_model_field_raw(field) ==
    IF field.null THEN <<>> ELSE Utf8Encode(field.text)

\* _decode_model_field: None for null; otherwise strict base64, then lenient
\* base64, then the raw text bytes.  None is returned as the empty string:
\* every caller tests the result with "if b" / "if not b".
_decode_model_field(field) ==
    IF field.null THEN <<>>
    ELSE IF B64DecodeStrict(field.text).ok THEN B64DecodeStrict(field.text).bytes
    ELSE IF B64DecodeLoose(field.text).ok THEN B64DecodeLoose(field.text).bytes
    ELSE Utf8Encode(field.text)

\* ------------------------------------------------------ numbers of the header
\* A u64 or float64 value hi * 2^53 + lo, kept as a pair because the
\* interesting values lie above the checker's integer range.
Num(hi, lo) == [hi |-> hi, lo |-> lo]

\* float(inputCount): exact below 2^53; in [2^53, 2^54) doubles are the even
\* integers and a tie goes to the even significand (lo divisible by 4)
Float64(n) ==
    IF n.hi = 0 \/ n.lo % 2 = 0 THEN n
    ELSE IF (n.lo + 1) % 4 = 0 THEN Num(n.hi, n.lo + 1) ELSE Num(n.hi, n.lo - 1)

\* max(0.0, val)
ClampNonNeg(v) == IF v.hi = 0 /\ v.lo < 0 THEN Num(0, 0) ELSE v

\* ------------------------------------------------------------ status texts
\* The literals of the code, each abbreviated to one character so that they
\* stand in the same proportion to StatusCap as the originals to 64 KiB.
MsgUp == << 117 >>              \* "python: up and listening"
MsgCoreLoaded == << 108 >>      \* "python: core models loaded"
MsgCoreMissing == << 109 >>     \* "python: core models missing; passthrough mode"
MsgReady == << 114 >>           \* "ready"
MsgFetchError(e) == << 102 >> \o e      \* f"fetch model error: {e}"
MsgSqlError(e) == << 115 >> \o e        \* f"sql error: {e}"
MsgLoadedHist(schema, table) == << 104 >> \o schema \o << 46 >> \o table
                                        \* f"loaded histogram {schema}.{table}"
ErrWrongSize == << 119 >>       \* IndexError "mmap slice assignment is wrong size"

READY == 1
INFO == 2
ERROR == 3

\* ------------------------------------------------ collaborators (environment)
BlobSmall == << 80, 75, 3, 4 >>                 \* fits the response region
BlobFull == Rep(8, PayloadCap - 4)               \* fills the response region exactly
BlobOver == Rep(7, PayloadCap - 4 + 1)          \* one byte more than the region holds
BlobHuge == Rep(9, FileCap - 4 + 1)             \* one byte more than the file holds

IdSmall == << 65 >>
IdFull == << 70 >>
IdOver == << 66 >>
IdHuge == << 67 >>
IdEmpty == << 69 >>
IdNull == << 78 >>
IdRaw == << 81 >>
IdLoose == << 76 >>
IdMissing == << 77 >>

\* upload_base_model: the row stored for a model id carries base64 text
upload_base_model(blob_bytes) == TextField(Base64Encode(blob_bytes))

\* The base_models table: rows written by upload_base_model, and rows whose
\* model column holds something else (empty text, null, text that is not
\* base64).  IdMissing has no row.
StoredIds == {IdSmall, IdFull, IdOver, IdHuge, IdEmpty, IdNull, IdRaw, IdLoose}

base_models(id) ==
    IF id = IdSmall THEN upload_base_model(BlobSmall)
    ELSE IF id = IdFull THEN upload_base_model(BlobFull)
    ELSE IF id = IdOver THEN upload_base_model(BlobOver)
    ELSE IF id = IdHuge THEN upload_base_model(BlobHuge)
    ELSE IF id = IdEmpty THEN TextField(<<>>)
    ELSE IF id = IdNull THEN NullField
    ELSE IF id = IdRaw THEN TextField(<< 81 >>)
    ELSE TextField(<< 63 >>)

\* _first_json_row for "SELECT model FROM base_models WHERE id=...": the row,
\* or None when there is no row or the request failed (every exception is
\* swallowed there)
NoRow == [found |-> FALSE, model |-> NullField]
Row(field) == [found |-> TRUE, model |-> field]

_first_json_row(id, httpOk) ==
    IF httpOk /\ id \in StoredIds THEN Row(base_models(id)) ELSE NoRow

\* exec_sql: the response text, or an exception with a message
TxtShort == << 65 >>
TxtAccent == << 233 >>                     \* one character, two UTF-8 bytes
TxtOver == Rep(66, PayloadCap - 4 + 1)
TxtHuge == Rep(67, FileCap - 4 + 1)
ErrShort == << 69 >>
ErrLong == Rep(70, StatusCap)              \* message longer than the status region
ErrHuge == Rep(71, FileCap - 4)            \* message longer than the file
ErrTimeout == << 84 >>                     \* requests' "Read timed out. (read timeout=60)"

Returned(t) == [ok |-> TRUE, text |-> t]
Raised(e) == [ok |-> FALSE, text |-> e]

exec_sql == { Returned(<<>>), Returned(TxtShort), Returned(TxtAccent), Returned(TxtOver),
              Returned(TxtHuge), Raised(ErrShort), Raised(ErrLong), Raised(ErrHuge) }

\* _predict_one before the final clamp: the value of expm1(logp) the loaded
\* TorchScript modules produce, or an exception raised on the way
torch_forward == { Raised(<<>>), [ok |-> TRUE, val |-> Num(0, -1)],
                   [ok |-> TRUE, val |-> Num(0, 7)] }

\* --------------------------------------------------------------- requests
Big == Num(1, 1)     \* 2^53 + 1

Generic(op, payload, ic) ==
    [inputCount |-> ic, lens |-> << 0, 0, 0, 0 >>,
     bytes |-> << op >> \o PackU32(Len(payload)) \o payload]

Legacy(schema, table, filter, order, ic) ==
    [inputCount |-> ic,
     lens |-> << Len(Utf8Encode(schema)), Len(Utf8Encode(table)),
                 Len(Utf8Encode(filter)), Len(Utf8Encode(order)) >>,
     bytes |-> Utf8Encode(schema) \o Utf8Encode(table)
               \o Utf8Encode(filter) \o Utf8Encode(order)]

FetchRequests ==
    { Generic(2, Utf8Encode(id), Num(0, 0)) : id \in StoredIds \cup {IdMissing} }
    \cup { Generic(2, << 65, 255 >>, Num(0, 0)) }

Requests ==
    FetchRequests
    \cup { Generic(3, << 83 >>, Num(0, 0)),
           Generic(0, <<>>, Num(0, 0)),
           Generic(9, << 65 >>, Num(0, 1000)),
           Legacy(<< 115 >>, << 111 >>, << 102 >>, <<>>, Num(0, 1000)),
           Legacy(<< 115 >>, << 111 >>, << 102 >>, << 107 >>, Big),
           Legacy(<<>>, <<>>, <<>>, << 3 >>, Num(0, 5)),
           Legacy(<< 97, 98, 99 >>, << 116, 97, 98, 108, 101 >>,
                  << 116, 114, 117, 101 >>, <<>>, Num(0, 3)) }

\* ------------------------------------------------------------------ state
VARIABLES
    mm,          \* the mapped file: header fields and the bytes from offset 64
    pc,          \* the responder's position in run_ipc_loop
    last_seq,    \* run_ipc_loop's last_seq
    core,        \* base_encoder / ordered_layer / output_head: loaded or None
    hist_cache,  \* (schema, table) -> the histogram module cached for it
    loc,         \* locals of the iteration that handles the current request
    st,          \* frame of the write_status call in progress
    sent,        \* history: the request in flight, as the requester wrote it
    status0,      \* history: the status fields when that request was observed
    statusLog,   \* history: the completed status writes, in order
    rd,           \* the status reader: position and the fields it has read
    resets,       \* requester: how often it has overwritten reqSeq out of turn
    stored,       \* the model store: are the core models there, and since when
    memo,         \* what the loaded modules have computed: arguments -> outcome
    file,         \* the backing file run_ipc_loop is started on
    engine,       \* the query engine behind exec_sql: does it still answer
    missed       \* history: the (schema, table) keys whose histogram load has failed

vars == << mm, pc, last_seq, core, hist_cache, loc, st, sent, status0,
         statusLog, rd,
         resets,
         stored,
         memo,
         file,
         engine,
         missed >>

\* Python's None, and the histogram modules torch.jit.load can return: the
\* table_histogram row of a table may hold one training generation or a later
None == "None"
HistModules == { "hist_a", "hist_b" }

NoLocals ==
    [reqSeq |-> 0, inputCount |-> Num(0, 0), lens |-> << 0, 0, 0, 0 >>,
     op |-> 0, payload |-> <<>>, obj |-> NoRow, txt |-> <<>>, out |-> <<>>,
     failed |-> FALSE,
     schema |-> <<>>, table |-> <<>>, filter_s |-> <<>>, order_s |-> <<>>,
     hist |-> None, val |-> Num(0, 0)]

\* what a status reader finds in the mapped file
StatusFields ==
    [seq |-> mm.statusSeq, len |-> mm.statusLen, code |-> mm.statusCode,
     message |-> Slice(mm.data, StatusBase, StatusCap)]

NoStatus == [code |-> 0, message |-> <<>>, ret |-> "", prev |-> 0]

\* a status reader that has read nothing yet
NoRead == [pc |-> "idle", seq |-> 0, len |-> 0, code |-> 0, message |-> <<>>]

\* The backing file: as the layout requires, missing, not writable, empty, or
\* holding the header and the payload region but no status message region.
FileKinds == { "ok", "missing", "readonly", "empty", "short" }

\* bytes of the file after the 64-byte header
Mapped(kind) == IF kind = "ok" THEN FileCap ELSE IF kind = "short" THEN PayloadCap ELSE 0

\* a zeroed file
FreshMailbox(kind) ==
    [reqSeq |-> 0, respSeq |-> 0, inputCount |-> Num(0, 0),
     lens |-> << 0, 0, 0, 0 >>, outputCount |-> Num(0, 0),
     statusSeq |-> 0, statusLen |-> 0, statusCode |-> 0,
     data |-> Rep(0, Mapped(kind))]

NothingSent == [inputCount |-> Num(0, 0), lens |-> << 0, 0, 0, 0 >>, bytes |-> <<>>]

\* run_ipc_loop is entered on the given mapped file
InitFrom(mailbox, request, kind) ==
    /\ mm = mailbox
    /\ pc = "load"
    /\ last_seq = 0
    /\ core = [base_encoder |-> FALSE, ordered_layer |-> FALSE, output_head |-> FALSE]
    /\ hist_cache = << >>
    /\ loc = NoLocals
    /\ st = NoStatus
    /\ sent = request
    /\ status0 = StatusFields
    /\ statusLog = <<>>
    /\ rd = NoRead
    /\ resets = 0
    /\ stored \in { [core |-> c, since |-> 0] : c \in BOOLEAN }
    /\ memo = << >>
    /\ file = kind
    /\ engine = "answers"
    /\ missed = {}

InitWith(kind) == InitFrom(FreshMailbox(kind), NothingSent, kind)

\* a fresh, zeroed file of the full size
Init == InitWith("ok")


\* any backing file
AnyFileInit == \E kind \in FileKinds : InitWith(kind)

\* ------------------------------------------------------------ write_status
\* write_status(code, message) called; the caller resumes at ret
CallStatus(code, message, ret) ==
    /\ st' = [code |-> code, message |-> message, ret |-> ret, prev |-> 0]
    /\ pc' = "ws_msg"

\* message.encode('utf-8'), cut to the status region's capacity
msgb(message) == Slice(Utf8Encode(message), 0, StatusCap)

\* mm[base:base+len(msgb)] = msgb; an exception ends the call silently
WriteStatusMsg ==
    /\ pc = "ws_msg"
    /\ IF msgb(st.message) = <<>>
       THEN /\ pc' = "ws_len"
            /\ UNCHANGED mm
       ELSE IF Fits(mm.data, StatusBase, msgb(st.message))
       THEN /\ mm' = [mm EXCEPT !.data = WriteAt(@, StatusBase, msgb(st.message))]
            /\ pc' = "ws_len"
       ELSE /\ pc' = st.ret
            /\ UNCHANGED mm
    /\ UNCHANGED << last_seq, core, hist_cache, loc, st, sent, status0, statusLog, rd, resets, stored, memo, file, engine, missed >>

\* variant: the sequence number is published together with the length
WriteStatusLen_seqfirst ==
    /\ pc = "ws_len"
    /\ st' = [st EXCEPT !.prev = mm.statusSeq]
    /\ mm' = [mm EXCEPT !.statusLen = Len(msgb(st.message)),
                        !.statusSeq = mm.statusSeq + 1]
    /\ pc' = "ws_code"
    /\ UNCHANGED << last_seq, core, hist_cache, loc, sent, status0, statusLog, rd, resets, stored, memo, file, engine, missed >>

\* prev = statusSeq; statusLen = len(msgb)
WriteStatusLen ==
    /\ pc = "ws_len"
    /\ st' = [st EXCEPT !.prev = mm.statusSeq]
    /\ mm' = [mm EXCEPT !.statusLen = Len(msgb(st.message))]
    /\ pc' = "ws_code"
    /\ UNCHANGED << last_seq, core, hist_cache, loc, sent, status0, statusLog, rd, resets, stored, memo, file, engine, missed >>

WriteStatusCode ==
    /\ pc = "ws_code"
    /\ mm' = [mm EXCEPT !.statusCode = st.code]
    /\ pc' = "ws_seq"
    /\ UNCHANGED << last_seq, core, hist_cache, loc, st, sent, status0, statusLog, rd, resets, stored, memo, file, engine, missed >>

WriteStatusSeq ==
    /\ pc = "ws_seq"
    /\ mm' = [mm EXCEPT !.statusSeq = st.prev + 1]
    /\ statusLog' = Append(statusLog, [code |-> st.code,
                                        len |-> Len(msgb(st.message)),
                                        message |-> msgb(st.message)])
    /\ pc' = st.ret
    /\ UNCHANGED << last_seq, core, hist_cache, loc, st, sent, status0, rd, resets, stored, memo, file, engine, missed >>

\* ------------------------------------------------------------------ startup
\* The three _load_script_by_id calls in one try block: the first failure
\* (a model not in the store, a failed request) leaves the remaining models
\* None.
\* variant: each global model is fetched under a guard of its own
LoadCoreModels_each ==
    /\ pc = "load"
    /\ core' \in (IF stored.core
                  THEN [base_encoder : BOOLEAN, ordered_layer : BOOLEAN,
                        output_head : BOOLEAN]
                  ELSE {[base_encoder |-> FALSE, ordered_layer |-> FALSE,
                         output_head |-> FALSE]})
    /\ pc' = "open"
    /\ UNCHANGED << mm, last_seq, hist_cache, loc, st, sent, status0, statusLog, rd, resets, stored, memo, file, engine, missed >>

LoadCoreModels ==
    /\ pc = "load"
    /\ \E n \in 0..(IF stored.core THEN 3 ELSE 0) :
          core' = [base_encoder |-> n >= 1, ordered_layer |-> n >= 2,
                   output_head |-> n >= 3]
    /\ pc' = "open"
    /\ UNCHANGED << mm, last_seq, hist_cache, loc, st, sent, status0, statusLog, rd, resets, stored, memo, file, engine, missed >>

\* open(ipc_path, 'r+b') raises for a missing or unwritable file and mmap
\* for an empty one: the exception leaves run_ipc_loop.  Otherwise
\* write_status(2, "python: up and listening"); last_seq = 0
OpenIpc ==
    /\ pc = "open"
    /\ IF file \in { "missing", "readonly", "empty" }
       THEN /\ pc' = "fatal"
            /\ UNCHANGED << st, last_seq >>
       ELSE /\ CallStatus(INFO, MsgUp, "top")
            /\ last_seq' = 0
    /\ UNCHANGED << mm, core, hist_cache, loc, sent, status0, statusLog, rd, resets, stored, memo, file, engine, missed >>

\* variant: the load outcome is not reported
AnnounceCore_skip ==
    /\ pc = "top"
    /\ last_seq = 0
    /\ pc' = "announce_ready"
    /\ UNCHANGED << mm, last_seq, core, hist_cache, loc, st, sent, status0, statusLog, rd, resets, stored, memo, file, engine, missed >>

\* first pass of the loop (last_seq == 0): report the load outcome
AnnounceCore ==
    /\ pc = "top"
    /\ last_seq = 0
    /\ CallStatus(INFO,
                  IF core.base_encoder /\ core.output_head
                  THEN MsgCoreLoaded ELSE MsgCoreMissing,
                  "announce_ready")
    /\ UNCHANGED << mm, last_seq, core, hist_cache, loc, sent, status0, statusLog, rd, resets, stored, memo, file, engine, missed >>

AnnounceReady ==
    /\ pc = "announce_ready"
    /\ CallStatus(READY, MsgReady, "mark_ready")
    /\ UNCHANGED << mm, last_seq, core, hist_cache, loc, sent, status0, statusLog, rd, resets, stored, memo, file, engine, missed >>

\* last_seq = -1
MarkReady ==
    /\ pc = "mark_ready"
    /\ last_seq' = -1
    /\ pc' = "poll"
    /\ UNCHANGED << mm, core, hist_cache, loc, st, sent, status0, statusLog, rd, resets, stored, memo, file, engine, missed >>

\* ---------------------------------------------------------------- the loop
\* variant: the loop polls without having announced
LoopTop_any ==
    /\ pc = "top"
    /\ pc' = "poll"
    /\ UNCHANGED << mm, last_seq, core, hist_cache, loc, st, sent, status0, statusLog, rd, resets, stored, memo, file, engine, missed >>

\* later passes of the loop skip the announcement
LoopTop ==
    /\ pc = "top"
    /\ last_seq # 0
    /\ pc' = "poll"
    /\ UNCHANGED << mm, last_seq, core, hist_cache, loc, st, sent, status0, statusLog, rd, resets, stored, memo, file, engine, missed >>

\* variant: a zero reqSeq is dispatched like any other value
Poll_nozero ==
    /\ pc = "poll"
    /\ IF mm.reqSeq # last_seq
       THEN /\ loc' = [loc EXCEPT !.reqSeq = mm.reqSeq]
            /\ status0' = StatusFields
            /\ pc' = "header"
       ELSE /\ pc' = "sleep"
            /\ UNCHANGED << loc, status0 >>
    /\ UNCHANGED << mm, last_seq, core, hist_cache, st, sent, statusLog, rd, resets, stored, memo, file, engine, missed >>

\* reqSeq = ...; if reqSeq != 0 and reqSeq != last_seq
Poll ==
    /\ pc = "poll"
    /\ IF mm.reqSeq # 0 /\ mm.reqSeq # last_seq
       THEN /\ loc' = [loc EXCEPT !.reqSeq = mm.reqSeq]
            /\ status0' = StatusFields
            /\ pc' = "header"
       ELSE /\ pc' = "sleep"
            /\ UNCHANGED << loc, status0 >>
    /\ UNCHANGED << mm, last_seq, core, hist_cache, st, sent, statusLog, rd, resets, stored, memo, file, engine, missed >>

\* variant: the idle pass clears statusCode
Sleep_clear ==
    /\ pc = "sleep"
    /\ mm' = [mm EXCEPT !.statusCode = 0]
    /\ pc' = "top"
    /\ UNCHANGED << last_seq, core, hist_cache, loc, st, sent, status0, statusLog, rd, resets, stored, memo, file, engine, missed >>

\* time.sleep(0.0002)
Sleep ==
    /\ pc = "sleep"
    /\ pc' = "top"
    /\ UNCHANGED << mm, last_seq, core, hist_cache, loc, st, sent, status0, statusLog, rd, resets, stored, memo, file, engine, missed >>

AllZero(lens) == lens[1] = 0 /\ lens[2] = 0 /\ lens[3] = 0 /\ lens[4] = 0

\* variant: orderLen is left out of the mode test
ReadHeader_three ==
    /\ pc = "header"
    /\ loc' = [loc EXCEPT !.inputCount = mm.inputCount, !.lens = mm.lens,
                          !.failed = FALSE]
    /\ pc' = IF mm.lens[1] = 0 /\ mm.lens[2] = 0 /\ mm.lens[3] = 0
             THEN "generic" ELSE "legacy"
    /\ UNCHANGED << mm, last_seq, core, hist_cache, st, sent, status0, statusLog, rd, resets, stored, memo, file, engine, missed >>

\* read inputCount and the four lengths; choose the mode
ReadHeader ==
    /\ pc = "header"
    /\ loc' = [loc EXCEPT !.inputCount = mm.inputCount, !.lens = mm.lens,
                          !.failed = FALSE]
    /\ pc' = IF AllZero(mm.lens) THEN "generic" ELSE "legacy"
    /\ UNCHANGED << mm, last_seq, core, hist_cache, st, sent, status0, statusLog, rd, resets, stored, memo, file, engine, missed >>

\* generic mode: [op:1][len:4][payload]
ReadGeneric ==
    /\ pc = "generic"
    /\ LET op == mm.data[1]
           plen == UnpackU32(Slice(mm.data, 1, 4))
       IN  /\ loc' = [loc EXCEPT !.op = op, !.payload = Slice(mm.data, 5, plen)]
           /\ pc' = IF op = 2 THEN "fetch" ELSE IF op = 3 THEN "exec" ELSE "unknown"
    /\ UNCHANGED << mm, last_seq, core, hist_cache, st, sent, status0, statusLog, rd, resets, stored, memo, file, engine, missed >>

\* ------------------------------------------------------- opcode 2, FetchModel
\* the lookup and the decoding of the row (data = b'' unless the row has a
\* non-empty model)
FetchLookup ==
    /\ pc = "fetch"
    /\ \E httpOk \in BOOLEAN :
          LET model_id == Utf8DecodeIgnore(loc.payload)
              obj == _first_json_row(model_id, httpOk)
              data == IF obj.found THEN _decode_model_field(obj.model) ELSE <<>>
          IN  loc' = [loc EXCEPT !.obj = obj, !.out = data]
    /\ pc' = "fetch_len"
    /\ UNCHANGED << mm, last_seq, core, hist_cache, st, sent, status0, statusLog, rd, resets, stored, memo, file, engine, missed >>

\* struct.pack_into('<I', mm, 64, len(data))
FetchWriteLen ==
    /\ pc = "fetch_len"
    /\ mm' = [mm EXCEPT !.data = WriteAt(@, 0, PackU32(Len(loc.out)))]
    /\ pc' = "fetch_data"
    /\ UNCHANGED << last_seq, core, hist_cache, loc, st, sent, status0, statusLog, rd, resets, stored, memo, file, engine, missed >>

\* if data: mm[68:68+len(data)] = data; a slice that leaves the file raises
\* and the handler reports "fetch model error"
FetchWriteData ==
    /\ pc = "fetch_data"
    /\ IF loc.out = <<>>
       THEN /\ pc' = "publish"
            /\ UNCHANGED << mm, st, loc >>
       ELSE IF Fits(mm.data, 4, loc.out)
       THEN /\ mm' = [mm EXCEPT !.data = WriteAt(@, 4, loc.out)]
            /\ pc' = "publish"
            /\ UNCHANGED << st, loc >>
       ELSE /\ CallStatus(ERROR, MsgFetchError(ErrWrongSize), "fetch_zero")
            /\ loc' = [loc EXCEPT !.failed = TRUE]
            /\ UNCHANGED mm
    /\ UNCHANGED << last_seq, core, hist_cache, sent, status0, statusLog, rd, resets, stored, memo, file, engine, missed >>

\* except branch: struct.pack_into('<I', mm, 64, 0)
\* variant: the empty answer also clears outputCount
FetchWriteZero_output ==
    /\ pc = "fetch_zero"
    /\ mm' = [mm EXCEPT !.data = WriteAt(@, 0, PackU32(0)),
                        !.outputCount = Float64(Num(0, 0))]
    /\ pc' = "publish"
    /\ UNCHANGED << last_seq, core, hist_cache, loc, st, sent, status0, statusLog, rd, resets, stored, memo, file, engine, missed >>

FetchWriteZero ==
    /\ pc = "fetch_zero"
    /\ mm' = [mm EXCEPT !.data = WriteAt(@, 0, PackU32(0))]
    /\ pc' = "publish"
    /\ UNCHANGED << last_seq, core, hist_cache, loc, st, sent, status0, statusLog, rd, resets, stored, memo, file, engine, missed >>

\* ----------------------------------------------------- opcode 3, ExecuteQuery
\* variant: requests.post without a timeout waits for the engine for ever
ExecQuery_hang ==
    /\ pc = "exec"
    /\ engine = "answers"
    /\ \E r \in exec_sql :
          IF r.ok
          THEN /\ loc' = [loc EXCEPT !.txt = r.text, !.out = Utf8Encode(r.text)]
               /\ pc' = "exec_len"
               /\ UNCHANGED st
          ELSE /\ loc' = [loc EXCEPT !.out = Utf8Encode(MsgSqlError(r.text)),
                                     !.failed = TRUE]
               /\ CallStatus(ERROR, MsgSqlError(r.text), "exec_len")
    /\ UNCHANGED << mm, last_seq, core, hist_cache, sent, status0, statusLog, rd, resets, stored, memo, file, engine, missed >>

\* what requests.post(..., timeout=60) ends with: an engine that sends
\* nothing makes it raise after 60 seconds
PostOutcomes == IF engine = "silent" THEN { Raised(ErrTimeout) } ELSE exec_sql

\* exec_sql(sql): the text, or "sql error: ..." after write_status(3, msg)
ExecQuery ==
    /\ pc = "exec"
    /\ \E r \in PostOutcomes :
          IF r.ok
          THEN /\ loc' = [loc EXCEPT !.txt = r.text, !.out = Utf8Encode(r.text)]
               /\ pc' = "exec_len"
               /\ UNCHANGED st
          ELSE /\ loc' = [loc EXCEPT !.out = Utf8Encode(MsgSqlError(r.text)),
                                     !.failed = TRUE]
               /\ CallStatus(ERROR, MsgSqlError(r.text), "exec_len")
    /\ UNCHANGED << mm, last_seq, core, hist_cache, sent, status0, statusLog, rd, resets, stored, memo, file, engine, missed >>

\* variant: respSeq is published together with the length, before the bytes
ExecWriteLen_early ==
    /\ pc = "exec_len"
    /\ mm' = [mm EXCEPT !.data = WriteAt(@, 0, PackU32(Len(loc.out))),
                        !.respSeq = loc.reqSeq]
    /\ pc' = "exec_data"
    /\ UNCHANGED << last_seq, core, hist_cache, loc, st, sent, status0, statusLog, rd, resets, stored, memo, file, engine, missed >>

\* struct.pack_into('<I', mm, 64, len(outb))
ExecWriteLen ==
    /\ pc = "exec_len"
    /\ mm' = [mm EXCEPT !.data = WriteAt(@, 0, PackU32(Len(loc.out)))]
    /\ pc' = "exec_data"
    /\ UNCHANGED << last_seq, core, hist_cache, loc, st, sent, status0, statusLog, rd, resets, stored, memo, file, engine, missed >>

\* variant: the bytes go to offset 69, where a request's payload starts
ExecWriteData_69 ==
    /\ pc = "exec_data"
    /\ IF loc.out = <<>>
       THEN /\ pc' = "publish"
            /\ UNCHANGED mm
       ELSE IF Fits(mm.data, 5, loc.out)
       THEN /\ mm' = [mm EXCEPT !.data = WriteAt(@, 5, loc.out)]
            /\ pc' = "publish"
       ELSE /\ pc' = "terminated"
            /\ UNCHANGED mm
    /\ UNCHANGED << last_seq, core, hist_cache, loc, st, sent, status0, statusLog, rd, resets, stored, memo, file, engine, missed >>

\* if outb: mm[68:68+len(outb)] = outb; outside any try: a slice that leaves
\* the file raises out of run_ipc_loop (finally: mm.close())
ExecWriteData ==
    /\ pc = "exec_data"
    /\ IF loc.out = <<>>
       THEN /\ pc' = "publish"
            /\ UNCHANGED mm
       ELSE IF Fits(mm.data, 4, loc.out)
       THEN /\ mm' = [mm EXCEPT !.data = WriteAt(@, 4, loc.out)]
            /\ pc' = "publish"
       ELSE /\ pc' = "terminated"
            /\ UNCHANGED mm
    /\ UNCHANGED << last_seq, core, hist_cache, loc, st, sent, status0, statusLog, rd, resets, stored, memo, file, engine, missed >>

\* ------------------------------------------------------------ unknown opcode
\* variant: the unknown opcode is reported on the status channel
UnknownOpcode_status ==
    /\ pc = "unknown"
    /\ mm' = [mm EXCEPT !.data = WriteAt(@, 0, PackU32(0))]
    /\ CallStatus(ERROR, << 63 >>, "publish")
    /\ UNCHANGED << last_seq, core, hist_cache, loc, sent, status0, statusLog, rd, resets, stored, memo, file, engine, missed >>

\* struct.pack_into('<I', mm, 64, 0)
UnknownOpcode ==
    /\ pc = "unknown"
    /\ mm' = [mm EXCEPT !.data = WriteAt(@, 0, PackU32(0))]
    /\ pc' = "publish"
    /\ UNCHANGED << last_seq, core, hist_cache, loc, st, sent, status0, statusLog, rd, resets, stored, memo, file, engine, missed >>

\* ------------------------------------------------------------ legacy estimate
\* variant: the offset is not advanced past the schema before the table is cut
LegacyDecode_overlap ==
    /\ pc = "legacy"
    /\ LET l == loc.lens
       IN  loc' = [loc EXCEPT
                     !.schema = Utf8DecodeIgnore(Slice(mm.data, 0, l[1])),
                     !.table = Utf8DecodeIgnore(Slice(mm.data, 0, l[2])),
                     !.filter_s = Utf8DecodeIgnore(Slice(mm.data, l[2], l[3])),
                     !.order_s = Utf8DecodeIgnore(Slice(mm.data, l[2] + l[3], l[4]))]
    /\ pc' = "hist"
    /\ UNCHANGED << mm, last_seq, core, hist_cache, st, sent, status0, statusLog, rd, resets, stored, memo, file, engine, missed >>

\* the four consecutive slices of the payload
\* variant: an empty order slice leaves order_s as the previous request set it
LegacyDecode_stale ==
    /\ pc = "legacy"
    /\ LET l == loc.lens
       IN  loc' = [loc EXCEPT
                     !.schema = Utf8DecodeIgnore(Slice(mm.data, 0, l[1])),
                     !.table = Utf8DecodeIgnore(Slice(mm.data, l[1], l[2])),
                     !.filter_s = Utf8DecodeIgnore(Slice(mm.data, l[1] + l[2], l[3])),
                     !.order_s = IF l[4] = 0 THEN loc.order_s
                                 ELSE Utf8DecodeIgnore(Slice(mm.data, l[1] + l[2] + l[3], l[4]))]
    /\ pc' = "hist"
    /\ UNCHANGED << mm, last_seq, core, hist_cache, st, sent, status0, statusLog, rd, resets, stored, memo, file, engine, missed >>

LegacyDecode ==
    /\ pc = "legacy"
    /\ LET l == loc.lens
       IN  loc' = [loc EXCEPT
                     !.schema = Utf8DecodeIgnore(Slice(mm.data, 0, l[1])),
                     !.table = Utf8DecodeIgnore(Slice(mm.data, l[1], l[2])),
                     !.filter_s = Utf8DecodeIgnore(Slice(mm.data, l[1] + l[2], l[3])),
                     !.order_s = Utf8DecodeIgnore(Slice(mm.data, l[1] + l[2] + l[3], l[4]))]
    /\ pc' = "hist"
    /\ UNCHANGED << mm, last_seq, core, hist_cache, st, sent, status0, statusLog, rd, resets, stored, memo, file, engine, missed >>

\* hist_cache[key] = hist
CachePut(cache, key, h) ==
    [k \in DOMAIN cache \cup { key } |-> IF k = key THEN h ELSE cache[k]]

\* variant: the module is fetched for every request
LoadHist_always ==
    /\ pc = "hist"
    /\ LET key == << loc.schema, loc.table >>
       IN  \E h \in HistModules \cup { None } :
               IF h # None
               THEN /\ hist_cache' = CachePut(hist_cache, key, h)
                    /\ loc' = [loc EXCEPT !.hist = h]
                    /\ CallStatus(INFO, MsgLoadedHist(loc.schema, loc.table),
                                  "predict")
                    /\ UNCHANGED missed
               ELSE /\ loc' = [loc EXCEPT !.hist = None]
                    /\ pc' = "predict"
                    /\ missed' = missed \cup { key }
                    /\ UNCHANGED << hist_cache, st >>
    /\ UNCHANGED << mm, last_seq, core, sent, status0, statusLog, rd, resets, stored, memo, file, engine >>

\* variant: a failed load is remembered, the key is cached with None
LoadHist_remember ==
    /\ pc = "hist"
    /\ LET key == << loc.schema, loc.table >>
       IN  IF key \in DOMAIN hist_cache
           THEN /\ loc' = [loc EXCEPT !.hist = hist_cache[key]]
                /\ pc' = "predict"
                /\ UNCHANGED << hist_cache, st, missed >>
           ELSE \E h \in HistModules \cup { None } :
                   IF h # None
                   THEN /\ hist_cache' = CachePut(hist_cache, key, h)
                        /\ loc' = [loc EXCEPT !.hist = h]
                        /\ CallStatus(INFO, MsgLoadedHist(loc.schema, loc.table),
                                      "predict")
                        /\ UNCHANGED missed
                   ELSE /\ hist_cache' = CachePut(hist_cache, key, None)
                        /\ loc' = [loc EXCEPT !.hist = None]
                        /\ pc' = "predict"
                        /\ missed' = missed \cup { key }
                        /\ UNCHANGED st
    /\ UNCHANGED << mm, last_seq, core, sent, status0, statusLog, rd, resets, stored, memo, file, engine >>

\* hist_cache.get(key); on a miss _load_hist_for_table, which either returns
\* a module (cached, announced with INFO) or raises (hist stays None)
LoadHist ==
    /\ pc = "hist"
    /\ LET key == << loc.schema, loc.table >>
       IN  IF key \in DOMAIN hist_cache
           THEN /\ loc' = [loc EXCEPT !.hist = hist_cache[key]]
                /\ pc' = "predict"
                /\ UNCHANGED << hist_cache, st, missed >>
           ELSE \E h \in HistModules \cup { None } :
                   IF h # None
                   THEN /\ hist_cache' = CachePut(hist_cache, key, h)
                        /\ loc' = [loc EXCEPT !.hist = h]
                        /\ CallStatus(INFO, MsgLoadedHist(loc.schema, loc.table),
                                      "predict")
                        /\ UNCHANGED missed
                   ELSE /\ loc' = [loc EXCEPT !.hist = None]
                        /\ pc' = "predict"
                        /\ missed' = missed \cup { key }
                        /\ UNCHANGED << hist_cache, st >>
    /\ UNCHANGED << mm, last_seq, core, sent, status0, statusLog, rd, resets, stored, memo, file, engine >>

\* The arguments the modules are called with.  The loaded TorchScript modules
\* are functions of their arguments (no dropout, no random source, no_grad):
\* the first call with given arguments picks their outcome, a later call with
\* the same arguments finds it.
ForwardArgs(hist, schema, table, filter_s, order_s, inputCount) ==
    << hist, schema, table, filter_s, order_s, Float64(inputCount) >>

LocArgs ==
    ForwardArgs(loc.hist, loc.schema, loc.table, loc.filter_s, loc.order_s,
                loc.inputCount)

Forward == IF LocArgs \in DOMAIN memo THEN { memo[LocArgs] } ELSE torch_forward

\* variant: the value is returned as the modules produce it
_predict_one_raw(r) ==
    IF loc.order_s # <<>> /\ ~core.ordered_layer THEN Raised(<<>>)
    ELSE r

\* _predict_one: calling ordered_layer when it is None raises; otherwise the
\* modules' value clamped to be non-negative
_predict_one(r) ==
    IF loc.order_s # <<>> /\ ~core.ordered_layer THEN Raised(<<>>)
    ELSE IF r.ok THEN [ok |-> TRUE, val |-> ClampNonNeg(r.val)]
    ELSE r

\* variant: a missing histogram module does not trigger the fallback
Predict_nohist ==
    /\ pc = "predict"
    /\ IF ~core.base_encoder \/ ~core.output_head
       THEN /\ loc' = [loc EXCEPT !.val = Float64(loc.inputCount), !.failed = TRUE]
            /\ UNCHANGED memo
       ELSE \E r \in Forward :
               /\ memo' = CachePut(memo, LocArgs, r)
               /\ IF _predict_one(r).ok
                  THEN loc' = [loc EXCEPT !.val = _predict_one(r).val]
                  ELSE loc' = [loc EXCEPT !.val = Float64(loc.inputCount),
                                          !.failed = TRUE]
    /\ pc' = "output"
    /\ UNCHANGED << mm, last_seq, core, hist_cache, st, sent, status0, statusLog, rd, resets, stored, file, engine, missed >>

\* variant: core models that are missing are fetched when a request needs them
Predict_lazy ==
    /\ pc = "predict"
    /\ core' = IF stored.core
               THEN [base_encoder |-> TRUE, ordered_layer |-> TRUE,
                     output_head |-> TRUE]
               ELSE core
    /\ IF ~core'.base_encoder \/ ~core'.output_head \/ loc.hist = None
       THEN /\ loc' = [loc EXCEPT !.val = Float64(loc.inputCount), !.failed = TRUE]
            /\ UNCHANGED memo
       ELSE \E r \in Forward :
               /\ memo' = CachePut(memo, LocArgs, r)
               /\ IF r.ok
                  THEN loc' = [loc EXCEPT !.val = ClampNonNeg(r.val)]
                  ELSE loc' = [loc EXCEPT !.val = Float64(loc.inputCount),
                                          !.failed = TRUE]
    /\ pc' = "output"
    /\ UNCHANGED << mm, last_seq, hist_cache, st, sent, status0, statusLog, rd, resets, stored, file, engine, missed >>

\* predict or fall back to float(inputCount)
Predict ==
    /\ pc = "predict"
    /\ IF ~core.base_encoder \/ ~core.output_head \/ loc.hist = None
       THEN /\ loc' = [loc EXCEPT !.val = Float64(loc.inputCount), !.failed = TRUE]
            /\ UNCHANGED memo
       ELSE \E r \in Forward :
               /\ memo' = CachePut(memo, LocArgs, r)
               /\ IF _predict_one(r).ok
                  THEN loc' = [loc EXCEPT !.val = _predict_one(r).val]
                  ELSE loc' = [loc EXCEPT !.val = Float64(loc.inputCount),
                                          !.failed = TRUE]
    /\ pc' = "output"
    /\ UNCHANGED << mm, last_seq, core, hist_cache, st, sent, status0, statusLog, rd, resets, stored, file, engine, missed >>

\* variant: the estimate is stored over inputCount (offset 16)
WriteOutput_16 ==
    /\ pc = "output"
    /\ mm' = [mm EXCEPT !.inputCount = loc.val]
    /\ pc' = "publish"
    /\ UNCHANGED << last_seq, core, hist_cache, loc, st, sent, status0, statusLog, rd, resets, stored, memo, file, engine, missed >>

\* struct.pack_into('<d', mm, 40, float(out))
WriteOutput ==
    /\ pc = "output"
    /\ mm' = [mm EXCEPT !.outputCount = loc.val]
    /\ pc' = "publish"
    /\ UNCHANGED << last_seq, core, hist_cache, loc, st, sent, status0, statusLog, rd, resets, stored, memo, file, engine, missed >>

\* ------------------------------------------------------------------ publish
\* struct.pack_into('<Q', mm, 8, int(reqSeq)); last_seq = reqSeq
\* variant: the answered sequence number is not recorded
Publish_norecord ==
    /\ pc = "publish"
    /\ mm' = [mm EXCEPT !.respSeq = loc.reqSeq]
    /\ pc' = "top"
    /\ UNCHANGED << last_seq, core, hist_cache, loc, st, sent, status0, statusLog, rd, resets, stored, memo, file, engine, missed >>

Publish ==
    /\ pc = "publish"
    /\ mm' = [mm EXCEPT !.respSeq = loc.reqSeq]
    /\ last_seq' = loc.reqSeq
    /\ pc' = "top"
    /\ UNCHANGED << core, hist_cache, loc, st, sent, status0, statusLog, rd, resets, stored, memo, file, engine, missed >>

\* ---------------------------------------------------------------- requester
\* One request in flight: write the request fields and the payload, then
\* publish the next reqSeq; the next request waits for respSeq = reqSeq.
SendRequest ==
    /\ mm.reqSeq = mm.respSeq
    /\ mm.reqSeq < MaxSeq
    /\ \E r \in Requests :
          /\ mm' = [mm EXCEPT !.inputCount = r.inputCount, !.lens = r.lens,
                              !.data = WriteAt(@, 0, r.bytes),
                              !.reqSeq = @ + 1]
          /\ sent' = r
    /\ UNCHANGED << pc, last_seq, core, hist_cache, loc, st, status0, statusLog, rd, resets, stored, memo, file, engine, missed >>

Responder ==
    \/ LoadCoreModels
    \/ OpenIpc
    \/ AnnounceCore
    \/ AnnounceReady
    \/ MarkReady
    \/ LoopTop
    \/ Poll
    \/ Sleep
    \/ ReadHeader
    \/ ReadGeneric
    \/ FetchLookup
    \/ FetchWriteLen
    \/ FetchWriteData
    \/ FetchWriteZero
    \/ ExecQuery
    \/ ExecWriteLen
    \/ ExecWriteData
    \/ UnknownOpcode
    \/ LegacyDecode
    \/ LoadHist
    \/ Predict
    \/ WriteOutput
    \/ Publish
    \/ WriteStatusMsg
    \/ WriteStatusLen
    \/ WriteStatusCode
    \/ WriteStatusSeq

\* ------------------------------------------------------------ status reader
\* A reader of the status fields in another process: it reads statusSeq and,
\* in a later step, statusLen, statusCode and the message bytes.
ReaderReadSeq ==
    /\ rd.pc = "idle"
    /\ mm.statusSeq # 0
    /\ rd' = [rd EXCEPT !.pc = "fields", !.seq = mm.statusSeq]
    /\ UNCHANGED << mm, pc, last_seq, core, hist_cache, loc, st, sent, status0,
                    statusLog, resets, stored, memo, file, engine, missed >>

ReaderReadFields ==
    /\ rd.pc = "fields"
    /\ rd' = [rd EXCEPT !.pc = "done", !.len = mm.statusLen,
                        !.code = mm.statusCode,
                        !.message = Slice(mm.data, StatusBase,
                                          Min(mm.statusLen, StatusCap))]
    /\ UNCHANGED << mm, pc, last_seq, core, hist_cache, loc, st, sent, status0,
                    statusLog, resets, stored, memo, file, engine, missed >>

StatusReader == ReaderReadSeq \/ ReaderReadFields

\* the requester in the specifications that add a second process
SideSendRequest ==
    /\ mm.reqSeq < MaxSideSeq
    /\ SendRequest

\* ------------------------------------------------------- unruly requester
\* A requester that, besides sending requests in turn, overwrites reqSeq
\* with any value at any time: back to 0, the value already answered, or a
\* value ahead of the handshake.
ResetReqSeq ==
    /\ resets < MaxResets
    /\ resets' = resets + 1
    /\ \E n \in 0..(MaxSideSeq + 1) :
          /\ n # mm.reqSeq
          /\ mm' = [mm EXCEPT !.reqSeq = n]
    /\ UNCHANGED << pc, last_seq, core, hist_cache, loc, st, sent, status0,
                    statusLog, rd, stored, memo, file, engine, missed >>

WildNext == Responder \/ SideSendRequest \/ ResetReqSeq

WildSpec == Init /\ [][WildNext]_vars

\* -------------------------------------------------------------- model store
\* The training run uploads the core models (upload_base_model for
\* base_encoder_v1, ordered_layer_v1, output_head_v1) while the responder is
\* running.
UploadCoreModels ==
    /\ ~stored.core
    /\ stored' = [core |-> TRUE, since |-> mm.reqSeq]
    /\ UNCHANGED << mm, pc, last_seq, core, hist_cache, loc, st, sent, status0,
                    statusLog, rd, resets, memo, file, engine, missed >>

StoreNext == Responder \/ SideSendRequest \/ UploadCoreModels

StoreSpec == Init /\ [][StoreNext]_vars

Next == Responder \/ SendRequest

\* ------------------------------------------------------------ query engine
\* The query engine stops answering: from now on it accepts requests and
\* sends nothing back.
EngineStalls ==
    /\ engine = "answers"
    /\ engine' = "silent"
    /\ UNCHANGED << mm, pc, last_seq, core, hist_cache, loc, st, sent, status0,
                    statusLog, rd, resets, stored, memo, file, missed >>

StallNext == Next \/ EngineStalls

StallSpec == Init /\ [][StallNext]_vars

\* ----------------------------------------------------------------- restart
\* The file a previous responder process left behind: its last request, a
\* legacy estimate numbered 1, answered by passthrough, and its READY status.
Leftover(r) ==
    [reqSeq |-> 1, respSeq |-> 1, inputCount |-> r.inputCount, lens |-> r.lens,
     outputCount |-> Float64(r.inputCount),
     statusSeq |-> 3, statusLen |-> Len(msgb(MsgReady)), statusCode |-> READY,
     data |-> WriteAt(WriteAt(Rep(0, FileCap), 0, r.bytes), StatusBase, msgb(MsgReady))]

LeftoverInit ==
    \E r \in { q \in Requests : ~AllZero(q.lens) } : InitFrom(Leftover(r), r, "ok")

\* the responder restarted on the file of a previous process
RestartSpec == LeftoverInit /\ [][Next]_vars

\* the responder started on any backing file
AnyFileSpec == AnyFileInit /\ [][Next]_vars

ReaderNext == Responder \/ SideSendRequest \/ StatusReader

\* the responder and the requester together with a status reader
ReaderSpec == Init /\ [][ReaderNext]_vars

Spec == Init /\ [][Next]_vars

\* The responder is a running process and the requester keeps sending.
FairSpec == Spec /\ WF_vars(Responder) /\ WF_vars(SendRequest)

TypeOK ==
    /\ pc \in { "load", "open", "top", "announce_ready", "mark_ready", "poll",
                "sleep", "header", "generic", "fetch", "fetch_len", "fetch_data",
                "fetch_zero", "exec", "exec_len", "exec_data", "unknown", "legacy",
                "hist", "predict", "output", "publish", "terminated", "fatal",
                "ws_msg", "ws_len", "ws_code", "ws_seq" }
    /\ Len(mm.data) = Mapped(file)
    /\ \A k \in missed : Len(k) = 2
    /\ mm.reqSeq \in 0..MaxSeq
    /\ mm.respSeq \in 0..MaxSeq

\* ------------------------------------------------------- shared vocabulary
\* the responder has published the response to the request in flight and is
\* back in its polling loop
Answered ==
    /\ pc \in { "top", "poll", "sleep" }
    /\ mm.reqSeq # 0
    /\ last_seq = mm.reqSeq

\* the request in flight was written as a generic request with this opcode
SentGeneric == AllZero(sent.lens) /\ Len(sent.bytes) >= 5
SentOp == sent.bytes[1]
SentPayload == SubSeq(sent.bytes, 6, Len(sent.bytes))

\* the response region holds [len(b) as u32][b] at offset 64
Response(b) ==
    /\ Slice(mm.data, 0, 4) = PackU32(Len(b))
    /\ Slice(mm.data, 4, Len(b)) = b

PayloadRegion(m) == Slice(m.data, 0, PayloadCap)

IdlePcs == { "top", "poll", "sleep" }
GenericPcs == { "generic", "fetch", "fetch_len", "fetch_data", "fetch_zero",
                "exec", "exec_len", "exec_data", "unknown" }
LegacyPcs == { "legacy", "hist", "predict", "output" }

\* the bytes a generic handler has decided to answer with
ExpectedGeneric ==
    IF SentOp = 2 THEN (IF loc.failed THEN <<>> ELSE loc.out)
    ELSE IF SentOp = 3 THEN loc.out
    ELSE <<>>

\* ---------------------------------------------------------------------- C1
\* C1: payload before sequence.  A step that changes respSeq sets it to the
\* observed reqSeq, writes nothing else, and finds the whole response already
\* in place (outputCount for a legacy request, [len][bytes] at offset 64 for
\* a generic one); and the responder changes outputCount or the payload
\* region only while the request it has observed is still unanswered.
C1_PayloadBeforeSequence ==
    [][ /\ (mm'.respSeq # mm.respSeq) =>
              /\ mm'.respSeq = mm.reqSeq
              /\ mm'.data = mm.data
              /\ mm'.outputCount = mm.outputCount
              /\ IF SentGeneric THEN Response(ExpectedGeneric)
                 ELSE mm.outputCount = loc.val
        /\ (/\ mm'.reqSeq = mm.reqSeq
            /\ \/ PayloadRegion(mm') # PayloadRegion(mm)
               \/ mm'.outputCount # mm.outputCount) =>
              /\ loc.reqSeq = mm.reqSeq
              /\ mm.respSeq # mm.reqSeq ]_vars

C1_Witness ==
    /\ Answered
    /\ mm.respSeq = mm.reqSeq
    /\ SentGeneric
    /\ SentOp = 2
    /\ loc.failed
    /\ Response(<<>>)

\* ---------------------------------------------------------------------- C2
\* C2: liveness.  Every published request number is eventually answered
\* (respSeq reaches it) with the responder back in its polling loop.
C2_EveryRequestAnswered ==
    \A n \in 1..MaxSeq :
        (mm.reqSeq = n) ~> (mm.respSeq = n /\ pc \in IdlePcs)

\* ---------------------------------------------------------------------- C3
\* C3: nothing in PROCESSING terminates the poll loop: the responder never
\* reaches the state in which an exception has left run_ipc_loop.
C3_LoopNeverTerminates == pc # "terminated"

\* ---------------------------------------------------------------------- C4
Fallback == ~core.base_encoder \/ ~core.output_head \/ loc.hist = None \/ loc.failed

\* the scenario of the specification, names and filter abbreviated to one
\* character each: {shop, orders, "(> amount 10)", "", 1000}
ShopOrders == Legacy(<< 115 >>, << 111 >>, << 102 >>, <<>>, Num(0, 1000))

\* C4 as claimed: on every fallback, outputCount equals inputCount exactly.
C4_PassthroughExact ==
    (Answered /\ ~SentGeneric /\ Fallback) => mm.outputCount = sent.inputCount

\* C4, amended: on every fallback of a legacy estimate the published
\* outputCount is float64(inputCount), which is inputCount itself whenever
\* inputCount is below 2^53 (1000 in the scenario with the entity model
\* absent); the fallback path never leaves the loop and always has a next
\* step until respSeq is published.
C4_Passthrough ==
    /\ (Answered /\ ~SentGeneric /\ Fallback) =>
          /\ mm.respSeq = mm.reqSeq
          /\ mm.outputCount = Float64(sent.inputCount)
          /\ sent.inputCount.hi = 0 => mm.outputCount = sent.inputCount
    /\ (Answered /\ sent = ShopOrders /\ loc.hist = None) => mm.outputCount = Num(0, 1000)
    /\ (pc \in LegacyPcs) => ENABLED Responder

C4_Witness ==
    /\ Answered
    /\ mm.respSeq = mm.reqSeq
    /\ sent = ShopOrders
    /\ core.base_encoder
    /\ core.output_head
    /\ loc.hist = None
    /\ mm.outputCount = Num(0, 1000)

\* ---------------------------------------------------------------------- C5
\* C5: a FetchModel whose lookup finds no row, fails, or yields nothing
\* decodable is answered with a zero-length response and an ERROR status
\* written during that request.
C5_FetchMissingReportsError ==
    (/\ Answered
     /\ SentGeneric
     /\ SentOp = 2
     /\ \/ ~loc.obj.found
        \/ _decode_model_field(loc.obj.model) = <<>>) =>
        /\ Response(<<>>)
        /\ mm.statusCode = ERROR
        /\ mm.statusSeq = status0.seq + 1

\* ---------------------------------------------------------------------- C6
Blobs == { BlobSmall, BlobFull, BlobOver, BlobHuge }

\* C6: FetchModel round trip.  When the row of the requested id was written
\* by upload_base_model(B) for a non-empty B that fits the response region,
\* the published response is [len(B)][B] and no status field has changed.
C6_FetchRoundTrip ==
    \A B \in Blobs :
        (/\ Answered
         /\ SentGeneric
         /\ SentOp = 2
         /\ Utf8DecodeIgnore(SentPayload) \in StoredIds
         /\ base_models(Utf8DecodeIgnore(SentPayload)) = upload_base_model(B)
         /\ loc.obj.found
         /\ B # <<>>
         /\ 4 + Len(B) <= PayloadCap) =>
            /\ Response(B)
            /\ StatusFields = status0

C6_Witness ==
    /\ Answered
    /\ SentGeneric
    /\ SentOp = 2
    /\ Utf8DecodeIgnore(SentPayload) = IdFull
    /\ loc.obj.found
    /\ Response(BlobFull)

\* ---------------------------------------------------------------------- C7
\* C7: when exec_sql raises, the loop goes on, and the published response is
\* the non-empty error message, the same text an ERROR status written during
\* the request carries.
C7_ExecFailureAnswered ==
    (/\ SentGeneric
     /\ SentOp = 3
     /\ loc.reqSeq = mm.reqSeq
     /\ loc.op = 3
     /\ loc.failed) =>
        /\ pc # "terminated"
        /\ Answered =>
              /\ loc.out # <<>>
              /\ Response(loc.out)
              /\ mm.statusCode = ERROR
              /\ mm.statusSeq = status0.seq + 1
              /\ Slice(mm.data, StatusBase, mm.statusLen) = loc.out

\* ---------------------------------------------------------------------- C8
\* C8: when exec_sql returns text T, the published response is
\* [len(utf8(T))][utf8(T)] and statusSeq is what it was when the request
\* was observed.
C8_ExecSuccess ==
    (Answered /\ SentGeneric /\ SentOp = 3 /\ ~loc.failed) =>
        /\ mm.respSeq = mm.reqSeq
        /\ Response(Utf8Encode(loc.txt))
        /\ mm.statusSeq = status0.seq

C8_Witness ==
    /\ Answered
    /\ SentGeneric
    /\ SentOp = 3
    /\ ~loc.failed
    /\ loc.txt = TxtAccent
    /\ Response(<< 195, 169 >>)

\* ---------------------------------------------------------------------- C9
\* C9: a generic request whose opcode is neither 2 nor 3 is answered with a
\* zero-length response and respSeq = reqSeq, and statusSeq, statusLen,
\* statusCode and the status message bytes are as they were.
C9_UnknownOpcode ==
    (Answered /\ SentGeneric /\ SentOp \notin { 2, 3 }) =>
        /\ Response(<<>>)
        /\ mm.respSeq = mm.reqSeq
        /\ StatusFields = status0

C9_Witness ==
    /\ Answered
    /\ SentGeneric
    /\ SentOp = 9
    /\ mm.respSeq = mm.reqSeq
    /\ Response(<<>>)
    /\ mm.statusSeq >= 3

\* --------------------------------------------------------------------- C10
\* C10: mode selection.  The generic handlers run exactly for requests whose
\* four length fields are all zero and the legacy handler exactly for the
\* others, whatever inputCount and the payload bytes are.
C10_ModeSelection ==
    /\ pc \in GenericPcs => AllZero(sent.lens)
    /\ pc \in LegacyPcs => ~AllZero(sent.lens)

C10_Witness ==
    /\ pc = "legacy"
    /\ sent.lens = << 0, 0, 0, 1 >>
    /\ sent.bytes[1] = 3

\* --------------------------------------------------------------------- C11
\* the legacy request in flight has been decoded by the responder
LegacyDecoded ==
    /\ ~AllZero(sent.lens)
    /\ loc.reqSeq = mm.reqSeq
    /\ pc \notin { "header", "legacy" }

\* the n payload bytes the requester wrote from offset 64 + off on
SentSlice(off, n) == SubSeq(sent.bytes, off + 1, off + n)

AbcTableTrue ==
    [inputCount |-> Num(0, 3), lens |-> << 3, 5, 4, 0 >>,
     bytes |-> << 97, 98, 99, 116, 97, 98, 108, 101, 116, 114, 117, 101 >>]

\* C11: legacy decode.  namespace, entity, filter and order are the decoded
\* consecutive slices of the request payload with lengths schemaLen,
\* tableLen, filterLen, orderLen, each starting where the previous one ends;
\* lengths 3,5,4,0 over "abctabletrue" give "abc", "table", "true", "".
C11_LegacyDecode ==
    LegacyDecoded =>
        LET l == sent.lens
        IN  /\ loc.schema = Utf8DecodeIgnore(SentSlice(0, l[1]))
            /\ loc.table = Utf8DecodeIgnore(SentSlice(l[1], l[2]))
            /\ loc.filter_s = Utf8DecodeIgnore(SentSlice(l[1] + l[2], l[3]))
            /\ loc.order_s = Utf8DecodeIgnore(SentSlice(l[1] + l[2] + l[3], l[4]))
            /\ sent = AbcTableTrue =>
                  /\ loc.schema = << 97, 98, 99 >>
                  /\ loc.table = << 116, 97, 98, 108, 101 >>
                  /\ loc.filter_s = << 116, 114, 117, 101 >>
                  /\ loc.order_s = <<>>

C11_Witness ==
    /\ LegacyDecoded
    /\ Answered
    /\ sent = AbcTableTrue
    /\ loc.table = << 116, 97, 98, 108, 101 >>

\* --------------------------------------------------------------------- C12
StatusPcs == { "ws_msg", "ws_len", "ws_code", "ws_seq" }

\* the message of the status write in progress lies in the status region
MessageInPlace ==
    Slice(mm.data, StatusBase, Len(msgb(st.message))) = msgb(st.message)

\* C12: status write ordering.  statusSeq changes only in the last step of
\* write_status, by exactly +1, when the truncated message, statusLen and
\* statusCode of that write are already in place; statusLen and statusCode
\* change only inside write_status, after the message bytes and before
\* statusSeq; no step that changes reqSeq or respSeq changes statusSeq.
C12_StatusWriteOrdering ==
    [][ /\ mm'.statusSeq # mm.statusSeq =>
              /\ pc = "ws_seq"
              /\ mm'.statusSeq = mm.statusSeq + 1
              /\ MessageInPlace
              /\ mm.statusLen = Len(msgb(st.message))
              /\ mm.statusCode = st.code
              /\ mm' = [mm EXCEPT !.statusSeq = mm.statusSeq + 1]
        /\ (mm'.statusLen # mm.statusLen \/ mm'.statusCode # mm.statusCode) =>
              /\ pc \in { "ws_len", "ws_code" }
              /\ MessageInPlace
              /\ mm'.statusSeq = mm.statusSeq
              /\ pc' \in { "ws_code", "ws_seq" }
        /\ (pc = "ws_msg" /\ pc' = "ws_len") =>
              /\ Slice(mm'.data, StatusBase, Len(msgb(st.message))) = msgb(st.message)
              /\ mm'.statusSeq = mm.statusSeq
              /\ mm'.statusLen = mm.statusLen
              /\ mm'.statusCode = mm.statusCode
        /\ (mm'.reqSeq # mm.reqSeq \/ mm'.respSeq # mm.respSeq) =>
              mm'.statusSeq = mm.statusSeq ]_vars

\* an ERROR status completed after the three startup statuses
C12_Witness ==
    /\ pc \notin StatusPcs
    /\ mm.statusSeq = 4
    /\ mm.statusCode = ERROR
    /\ mm.statusLen = Len(msgb(st.message))
    /\ mm.statusLen > 0

\* --------------------------------------------------------------------- C13
\* C13: status consistency under a concurrent reader.  A reader that read
\* statusSeq = k and afterwards statusLen, statusCode and the message bytes
\* holds the length, code and message of the k-th status write.
C13_StatusConsistency ==
    rd.pc = "done" =>
        [code |-> rd.code, len |-> rd.len, message |-> rd.message]
            = statusLog[rd.seq]

\* --------------------------------------------------------------------- C14
\* number of completed status writes with the given code
StatusCount(code) ==
    Cardinality({ i \in DOMAIN statusLog : statusLog[i].code = code })

\* C14: READY once.  Whatever the startup load yields and whatever values the
\* requester puts into reqSeq (0 included), at most one READY status is ever
\* written; none is written before the load attempt and the announcement of
\* its outcome, and from the moment last_seq leaves 0 exactly one has been.
C14_ReadyOnce ==
    /\ StatusCount(READY) <= 1
    /\ pc \in { "load", "open" } => StatusCount(READY) = 0
    /\ StatusCount(READY) = 1 => StatusCount(INFO) >= 2
    /\ last_seq # 0 => StatusCount(READY) = 1

\* the requester has put reqSeq back to 0 after an answered request and the
\* responder has polled it
C14_Witness ==
    /\ resets > 0
    /\ mm.reqSeq = 0
    /\ last_seq > 0
    /\ pc = "top"
    /\ StatusCount(READY) = 1

\* --------------------------------------------------------------------- C15
\* the responder has finished startup and has not dispatched a request yet
StartupDone == last_seq = -1 /\ pc \in IdlePcs

Logged(code, message) ==
    [code |-> code, len |-> Len(msgb(message)), message |-> msgb(message)]

\* C15 as stated: startup writes exactly one INFO status and then one READY
\* status, so that statusSeq stands at 2 at the first poll.
C15_OneInfoThenReady ==
    StartupDone =>
        /\ StatusCount(INFO) = 1
        /\ StatusCount(READY) = 1
        /\ mm.statusSeq = 2
        /\ statusLog[Len(statusLog)].code = READY

\* C15: startup announcement.  Before the first poll of reqSeq the responder
\* writes exactly three statuses: INFO "up and listening" once the file is
\* mapped, INFO with the load outcome ("loaded" iff base encoder and output
\* head are there), then READY; statusSeq advances by 3 and READY is the last
\* status before the polling starts; reqSeq is not polled before that.
C15_StartupAnnouncement ==
    /\ StartupDone =>
          /\ statusLog = << Logged(INFO, MsgUp),
                            Logged(INFO, IF core.base_encoder /\ core.output_head
                                         THEN MsgCoreLoaded ELSE MsgCoreMissing),
                            Logged(READY, MsgReady) >>
          /\ mm.statusSeq = 3
          /\ mm.statusCode = READY
    /\ pc \in { "poll", "sleep" } => last_seq # 0

C15_Witness ==
    /\ StartupDone
    /\ pc = "poll"
    /\ core.base_encoder /\ ~core.output_head
    /\ statusLog[2] = Logged(INFO, MsgCoreMissing)
    /\ mm.statusSeq = 3

\* --------------------------------------------------------------------- C16
\* a step of the requester: it alone changes reqSeq
RequesterStep == mm'.reqSeq # mm.reqSeq

StatusRegion(m) == Slice(m.data, StatusBase, StatusCap)

\* C16 as stated: no byte is written by both processes, so no step of the
\* responder changes a byte the requester wrote for the request in flight.
C16_DisjointBytes ==
    [][ ~RequesterStep =>
            Slice(mm'.data, 0, Len(sent.bytes)) = Slice(mm.data, 0, Len(sent.bytes))
      ]_vars

\* C16: field ownership.  reqSeq, inputCount and the four lengths are written
\* by the requester only; respSeq, outputCount, statusSeq, statusLen,
\* statusCode and the status message region by the responder only.  The
\* payload region from offset 64 on is written by both, in turns: by the
\* requester while no request is in flight, and by the responder (the
\* [len][bytes] of a generic response, over the request payload) only after
\* it has observed the reqSeq in flight and before it publishes respSeq.
C16_FieldOwnership ==
    [][ /\ RequesterStep =>
              /\ mm.reqSeq = mm.respSeq
              /\ mm'.respSeq = mm.respSeq
              /\ mm'.outputCount = mm.outputCount
              /\ mm'.statusSeq = mm.statusSeq
              /\ mm'.statusLen = mm.statusLen
              /\ mm'.statusCode = mm.statusCode
              /\ StatusRegion(mm') = StatusRegion(mm)
        /\ ~RequesterStep =>
              /\ mm'.inputCount = mm.inputCount
              /\ mm'.lens = mm.lens
              /\ PayloadRegion(mm') # PayloadRegion(mm) =>
                    /\ pc \in GenericPcs
                    /\ loc.reqSeq = mm.reqSeq
                    /\ mm.respSeq # mm.reqSeq
                    /\ mm'.respSeq = mm.respSeq
      ]_vars

\* a generic response lies over the bytes of the request it answers
C16_Witness ==
    /\ Answered
    /\ SentGeneric
    /\ SentOp = 3
    /\ Slice(mm.data, 0, Len(sent.bytes)) # sent.bytes
    /\ Response(loc.out)

\* --------------------------------------------------------------------- C17
\* the cache key of the legacy request being handled
Key == << loc.schema, loc.table >>

\* C17: entity-model cache.  An entry is never evicted or replaced; the cache
\* changes only by the lookup step of a legacy request whose key is missing,
\* which adds that one key with the module just loaded and leaves the other
\* entries alone; a lookup whose key is cached takes the cached module and
\* performs no fetch (no new module, no load status, no failure).
C17_EntityCache ==
    [][ /\ \A k \in DOMAIN hist_cache :
              k \in DOMAIN hist_cache' /\ hist_cache'[k] = hist_cache[k]
        /\ hist_cache' # hist_cache =>
              /\ pc = "hist"
              /\ Key \notin DOMAIN hist_cache
              /\ DOMAIN hist_cache' = DOMAIN hist_cache \cup { Key }
              /\ hist_cache'[Key] \in HistModules
              /\ loc'.hist = hist_cache'[Key]
        /\ (pc = "hist" /\ pc' # pc /\ Key \in DOMAIN hist_cache) =>
              /\ pc' = "predict"
              /\ loc'.hist = hist_cache[Key]
              /\ st' = st
              /\ mm' = mm
      ]_vars

\* the second request found its key in the cache: it wrote no status after
\* the load status of the first
C17_Witness ==
    /\ pc = "predict"
    /\ loc.reqSeq = 2
    /\ Key \in DOMAIN hist_cache
    /\ loc.hist = hist_cache[Key]
    /\ Len(statusLog) = 4
    /\ statusLog[4].code = INFO

\* --------------------------------------------------------------------- C18
\* the prediction step of a legacy request
PredictStep == pc = "predict" /\ pc' = "output"

AllCore == core.base_encoder /\ core.ordered_layer /\ core.output_head

\* C18 as stated: a request that needs a core model that is not loaded gets it
\* from the store when the store has it, and the model is then used.
C18_LazyGlobalLoad ==
    [][ (PredictStep /\ stored.core /\ stored.since < loc.reqSeq) =>
            /\ core'.base_encoder
            /\ core'.output_head
            /\ loc.order_s # <<>> => core'.ordered_layer
      ]_vars

\* C18: the core models are loaded once, at startup.  Only the load step
\* before the control block is opened assigns them; no request fetches a core
\* model, so with the base encoder or the output head missing at startup a
\* later estimate is the passthrough value even when the store has the models
\* by then.
C18_LoadOnce ==
    [][ /\ core' # core => pc = "load"
        /\ (PredictStep /\ (~core.base_encoder \/ ~core.output_head)) =>
              /\ core' = core
              /\ loc'.val = Float64(loc.inputCount)
      ]_vars

\* the store received the core models before the request was published; the
\* request, with its histogram loaded, was answered with the passthrough value
C18_Witness ==
    /\ Answered
    /\ ~AllZero(sent.lens)
    /\ stored.core
    /\ stored.since < loc.reqSeq
    /\ ~core.base_encoder
    /\ loc.hist # None
    /\ mm.outputCount = Float64(sent.inputCount)

\* --------------------------------------------------------------------- C19
\* the arguments of the legacy request in flight, taken from what the
\* requester wrote, with the histogram module the cache holds for it
SentArgs ==
    LET l == sent.lens
    IN  ForwardArgs(loc.hist,
                    Utf8DecodeIgnore(SentSlice(0, l[1])),
                    Utf8DecodeIgnore(SentSlice(l[1], l[2])),
                    Utf8DecodeIgnore(SentSlice(l[1] + l[2], l[3])),
                    Utf8DecodeIgnore(SentSlice(l[1] + l[2] + l[3], l[4])),
                    sent.inputCount)

\* the estimate the loaded models give for the request in flight
Estimate ==
    IF \/ ~core.base_encoder \/ ~core.output_head \/ loc.hist = None
       \/ (SentArgs[5] # <<>> /\ ~core.ordered_layer)
       \/ SentArgs \notin DOMAIN memo'
    THEN Float64(sent.inputCount)
    ELSE IF memo'[SentArgs].ok THEN ClampNonNeg(memo'[SentArgs].val)
    ELSE Float64(sent.inputCount)

\* C19: determinism.  The outputCount written for a legacy estimate request
\* is a function of the models in use (core models, the cached histogram
\* module) and of the request's namespace, entity, filter, order and
\* inputCount alone: what the modules computed for given arguments is what
\* they compute for them again, and nothing an earlier request left behind
\* enters the estimate, so the same request against the same models gets the
\* same outputCount whatever was processed before.
C19_Determinism ==
    [][ /\ \A a \in DOMAIN memo : a \in DOMAIN memo' /\ memo'[a] = memo[a]
        /\ (pc = "output" /\ pc' = "publish") => mm'.outputCount = Estimate
        /\ (pc = "predict" /\ pc' = "output") => loc'.val = Estimate
      ]_vars

\* the second of two identical requests has been answered from the models:
\* the first loaded the histogram module, both were computed from the one set
\* of arguments
C19_Witness ==
    /\ Answered
    /\ loc.reqSeq = 2
    /\ ~AllZero(sent.lens)
    /\ Len(statusLog) = 4
    /\ statusLog[4].code = INFO
    /\ DOMAIN memo = { SentArgs }
    /\ memo[SentArgs].ok
    /\ mm.outputCount = ClampNonNeg(memo[SentArgs].val)

\* --------------------------------------------------------------------- C20
\* C20: opening the control block.  On a backing file that is missing, not
\* writable or smaller than header + payload region + status message region
\* the responder stops at startup: it announces no status, never polls
\* reqSeq and never waits for requests.
C20_OpenFailsFatally ==
    file # "ok" =>
        /\ statusLog = <<>>
        /\ pc \notin { "poll", "sleep", "header" }

\* --------------------------------------------------------------------- C21
\* the responder is handling an ExecuteQuery request and exec_sql has ended
ExecDone ==
    /\ SentGeneric
    /\ SentOp = 3
    /\ loc.reqSeq = mm.reqSeq
    /\ loc.op = 3
    /\ pc \in { "ws_msg", "ws_len", "ws_code", "ws_seq", "exec_len", "exec_data",
                "publish" }

TimeoutBytes == Utf8Encode(MsgSqlError(ErrTimeout))

\* C21 as stated: with a query engine that never answers the responder stays
\* in the forwarded call for ever.
C21_NoTimeout ==
    [][ (pc = "exec" /\ engine = "silent") => pc' = "exec" ]_vars

\* C21: the forwarded call is bounded.  exec_sql posts with timeout=60, so
\* with a query engine that sends nothing the call ends by raising: the
\* responder can always leave the call, it writes an ERROR status with the
\* "sql error: ..." text, answers the request with that text and publishes
\* respSeq; it does not stop.
C21_TimeoutAnswered ==
    /\ pc = "exec" => ENABLED ExecQuery
    /\ (ExecDone /\ engine = "silent" /\ loc.out = TimeoutBytes) =>
          /\ loc.failed
          /\ pc \notin StatusPcs => (mm.statusCode = ERROR /\ MessageInPlace)
    /\ (Answered /\ SentGeneric /\ SentOp = 3 /\ loc.out = TimeoutBytes) =>
          /\ Response(TimeoutBytes)
          /\ mm.respSeq = mm.reqSeq
    /\ (engine = "silent" /\ SentGeneric /\ SentOp = 3 /\ loc.reqSeq = mm.reqSeq
            /\ loc.out = TimeoutBytes) => pc # "terminated"

\* the engine was silent; the request was answered with the timeout error
C21_Witness ==
    /\ engine = "silent"
    /\ Answered
    /\ SentGeneric
    /\ SentOp = 3
    /\ loc.out = TimeoutBytes
    /\ Response(TimeoutBytes)
    /\ mm.statusCode = ERROR

\* --------------------------------------------------------------------- C22
\* the responder is in a pass of the loop after READY that finds no request:
\* at the poll reqSeq is 0 or the value last answered
IdlePass ==
    /\ pc \in IdlePcs
    /\ last_seq # 0
    /\ pc = "poll" => (mm.reqSeq = 0 \/ mm.reqSeq = last_seq)

\* C22: WAITING has no side effect.  A step of the responder in a pass that
\* finds reqSeq 0 or unchanged writes nothing to the control block, calls no
\* collaborator (locals, status frame, module outcomes and store untouched),
\* leaves the model cache, the core models and last_seq as they are, and the
\* poll goes to the sleep.
C22_WaitingNoEffect ==
    [][ (IdlePass /\ ~RequesterStep /\ pc' # pc) =>
            /\ mm' = mm
            /\ last_seq' = last_seq
            /\ hist_cache' = hist_cache
            /\ core' = core
            /\ loc' = loc
            /\ st' = st
            /\ statusLog' = statusLog
            /\ memo' = memo
            /\ pc' \in IdlePcs
            /\ pc = "poll" => pc' = "sleep"
      ]_vars

\* an idle pass has been completed after a request was answered and another
\* status than READY stands in the control block
C22_Witness ==
    /\ pc = "sleep"
    /\ last_seq > 0
    /\ mm.reqSeq = last_seq
    /\ mm.respSeq = last_seq
    /\ mm.statusCode = ERROR

\* --------------------------------------------------------------------- C23
\* the steps that write a generic response: its length and its bytes
ResponseWritePcs == { "fetch_len", "fetch_data", "fetch_zero", "exec_len",
                      "exec_data", "unknown" }

\* C23: the status channel is independent of the response.  No step that
\* writes a generic response changes the status message bytes, statusSeq,
\* statusLen or statusCode, so the last status still reads back with its own
\* message once the response is written.
C23_StatusRegionUntouched ==
    [][ (pc \in ResponseWritePcs /\ pc' \notin StatusPcs) =>
            /\ StatusRegion(mm') = StatusRegion(mm)
            /\ mm'.statusSeq = mm.statusSeq
            /\ mm'.statusLen = mm.statusLen
            /\ mm'.statusCode = mm.statusCode
            /\ statusLog # <<>> =>
                  Slice(mm'.data, StatusBase, statusLog[Len(statusLog)].len)
                      = statusLog[Len(statusLog)].message
      ]_vars

\* --------------------------------------------------------------------- C24
NonNegative(v) == v.hi > 0 \/ (v.hi = 0 /\ v.lo >= 0)

\* C24: outputCount is never negative.  The value the prediction step hands on
\* and the outputCount in the control block are at least 0: zero for a
\* negative value of the modules, the value itself otherwise, float(inputCount)
\* on the passthrough path.
C24_OutputNonNegative ==
    /\ NonNegative(mm.outputCount)
    /\ pc \in { "output", "publish" } /\ ~AllZero(loc.lens) => NonNegative(loc.val)
    /\ (Answered /\ ~AllZero(sent.lens) /\ ~Fallback /\ SentArgs \in DOMAIN memo) =>
          mm.outputCount = (IF NonNegative(memo[SentArgs].val)
                            THEN memo[SentArgs].val ELSE Num(0, 0))

\* the modules produced a negative value and 0 was published
C24_Witness ==
    /\ Answered
    /\ ~AllZero(sent.lens)
    /\ ~Fallback
    /\ SentArgs \in DOMAIN memo
    /\ memo[SentArgs].ok
    /\ ~NonNegative(memo[SentArgs].val)
    /\ mm.outputCount = Num(0, 0)

\* --------------------------------------------------------------------- C25
\* the responder is working on a request
ProcessingPcs == { "header", "publish" } \cup GenericPcs \cup LegacyPcs

\* C25: startup order.  Before the responder reads a request header, calls a
\* collaborator for a request or writes respSeq, the READY status is complete:
\* it is the third status of the log, and reqSeq is first polled after it.
C25_ReadyBeforeResponse ==
    (\/ pc \in ProcessingPcs \cup { "poll", "sleep" }
     \/ mm.respSeq # 0
     \/ loc # NoLocals) =>
        /\ Len(statusLog) >= 3
        /\ statusLog[3].code = READY
        /\ last_seq # 0

\* a request was answered; READY had been announced
C25_Witness ==
    /\ Answered
    /\ mm.respSeq = 1
    /\ StatusCount(READY) = 1
    /\ statusLog[3].code = READY

\* --------------------------------------------------------------------- C26
\* the poll that hands a request to a handler
Dispatch == pc = "poll" /\ pc' = "header"

\* C26: at-most-once dispatch.  The responder never dispatches the request
\* whose number respSeq already carries, also not at the first poll after a
\* start on a mailbox with reqSeq = respSeq = N left by a previous process.
C26_AtMostOnce ==
    [][ Dispatch => mm.reqSeq # mm.respSeq ]_vars

\* ---------------------------------------------------------------------------
\* C27  Sequence invariant.  The responder's copy of the sequence number
\* changes only at the poll, to the nonzero value then found in reqSeq, and
\* respSeq changes only at the publication, to that copy: respSeq is its
\* initial value or a nonzero value read earlier from reqSeq.  With the
\* requester of Spec, respSeq <= reqSeq in every state, and while the
\* responder is between requests after at least one answer, last_seq equals
\* respSeq.
SeqRead == loc'.reqSeq # loc.reqSeq => pc = "poll" /\ loc'.reqSeq = mm.reqSeq /\ mm.reqSeq # 0

SeqWritten == mm'.respSeq # mm.respSeq => pc = "publish" /\ mm'.respSeq = loc.reqSeq /\ loc.reqSeq # 0

SeqOrdered ==
    /\ mm.respSeq <= mm.reqSeq
    /\ mm.respSeq # 0 => loc.reqSeq # 0
    /\ pc \in IdlePcs /\ mm.respSeq # 0 => last_seq = mm.respSeq

C27_SequenceInvariant == SeqOrdered /\ [][ SeqRead /\ SeqWritten /\ SeqOrdered' ]_vars

C27_Witness ==
    /\ pc = "poll"
    /\ mm.respSeq = MaxSeq
    /\ mm.reqSeq = MaxSeq
    /\ last_seq = MaxSeq

\* ---------------------------------------------------------------------------
\* C28  A missing global model is never invoked.  The three global models are
\* loaded in the order base encoder, ordered-adjustment layer, output head
\* inside one guarded block, so in every state a missing ordered layer means
\* a missing output head and a missing base encoder means both others are
\* missing; whenever the model pipeline runs instead of the passthrough, all
\* three global models and the entity model are loaded, whatever the order
\* clause of the request.
PipelineRuns ==
    pc = "predict" /\ core.base_encoder /\ core.output_head /\ loc.hist # None

C28_NoMissingModelInvoked ==
    /\ ~core.ordered_layer => ~core.output_head
    /\ ~core.base_encoder => ~core.ordered_layer /\ ~core.output_head
    /\ PipelineRuns => AllCore /\ loc.hist \in HistModules

C28_Witness == PipelineRuns /\ AllCore /\ loc.order_s # <<>>

\* ---------------------------------------------------------------------------
\* C29  A failed entity-model load is not remembered.  When the load for the
\* (schema, table) of a request fails, no cache entry is created and no
\* status is written, and the request is answered with its inputCount; a
\* later request for a key that is not cached fetches again and can succeed.
\* The INFO status for a loaded histogram is started exactly by the step that
\* creates a cache entry, so it is logged at most once per key.
AnnouncesLoad ==
    /\ pc = "hist"
    /\ pc' = "ws_msg"
    /\ st' = [code |-> INFO, message |-> MsgLoadedHist(loc.schema, loc.table),
              ret |-> "predict", prev |-> 0]

LoadFailed == ~AllZero(loc.lens) /\ loc.hist = None

LoadAnnounced(k) ==
    Cardinality({ i \in DOMAIN statusLog :
                     statusLog[i] = Logged(INFO, MsgLoadedHist(k[1], k[2])) })

NotRemembered ==
    /\ pc \in { "predict", "output", "publish" } /\ LoadFailed =>
          /\ Key \notin DOMAIN hist_cache
          /\ Key \in missed
          /\ StatusFields = status0
    /\ pc = "output" /\ LoadFailed => loc.val = Float64(loc.inputCount)
    /\ pc = "publish" /\ LoadFailed => mm.outputCount = Float64(loc.inputCount)
    /\ \A k \in missed \cup DOMAIN hist_cache : LoadAnnounced(k) <= 1
    /\ \A k \in DOMAIN hist_cache : hist_cache[k] \in HistModules

C29_FailedLoadNotRemembered ==
    /\ NotRemembered
    /\ [][ /\ NotRemembered'
           /\ hist_cache' # hist_cache <=> AnnouncesLoad
           /\ (pc = "hist" /\ Key \notin DOMAIN hist_cache) =>
                  /\ ENABLED (LoadHist /\ Key \in DOMAIN hist_cache')
                  /\ ENABLED (LoadHist /\ Key \in missed')
           /\ (pc = "hist" /\ pc' = "predict" /\ Key \notin DOMAIN hist_cache) =>
                  /\ hist_cache' = hist_cache
                  /\ loc'.hist = None
                  /\ st' = st
                  /\ mm' = mm
         ]_vars

\* the second request is for a key whose load failed during the first, and
\* this time the histogram was loaded and announced
C29_Witness ==
    /\ pc = "predict"
    /\ loc.reqSeq = 2
    /\ Key \in missed
    /\ Key \in DOMAIN hist_cache
    /\ loc.hist = hist_cache[Key]
    /\ LoadAnnounced(Key) = 1

\* ---------------------------------------------------------------------------
\* C30  Per-mode frame conditions.  While a generic request (FetchModel,
\* ExecuteQuery, unknown opcode) is processed, no step changes outputCount or
\* the histogram cache; while a legacy estimate request is processed, no step
\* changes a byte of the payload region, the 512 KiB from offset 64 that
\* carry requests and generic responses; in both modes reqSeq, inputCount and
\* the four length fields stay as they are.
Processing == pc \in ProcessingPcs \/ (pc \in StatusPcs /\ last_seq # 0)

GenericMode == AllZero(sent.lens)

C30_ModeFrames ==
    [][ Processing =>
          /\ mm'.reqSeq = mm.reqSeq
          /\ mm'.inputCount = mm.inputCount
          /\ mm'.lens = mm.lens
          /\ GenericMode => mm'.outputCount = mm.outputCount /\ hist_cache' = hist_cache
          /\ ~GenericMode => PayloadRegion(mm') = PayloadRegion(mm)
      ]_vars

\* a generic request is about to be published after a legacy request left
\* its estimate in outputCount and a histogram in the cache
C30_Witness ==
    /\ pc = "publish"
    /\ GenericMode
    /\ loc.reqSeq = 2
    /\ mm.outputCount # Float64(Num(0, 0))
    /\ DOMAIN hist_cache # {}
    /\ PayloadRegion(mm) # PayloadRegion([mm EXCEPT !.data = WriteAt(@, 0, sent.bytes)])

====
